---- MODULE Spec2Model ----
(***************************************************************************)
(* Boot-time descriptor-table initialization of the khazraj kernel:        *)
(*   kernel/src/arch/x86_64/gdt.rs  (descriptor flags, encoders, the       *)
(*                                   fixed-capacity table, the TSS and GDT *)
(*                                   singletons, init)                     *)
(*   kernel/src/main.rs             (entry)                                *)
(*                                                                         *)
(* A u64 is modelled as the set of its set bit positions (a subset of      *)
(* 0..63): bitwise OR is set union, a mask is set intersection.            *)
(***************************************************************************)
EXTENDS Integers, FiniteSets, Sequences, TLC

VARIABLES
    pc,                 \* position of the boot core in entry / init / the initializers
    revisionSupported,  \* what requests::BASE_REVISION.is_supported() reports
    interruptsEnabled,  \* the CPU's interrupt flag
    tssAddr,            \* address of the TSS singleton's static storage
    tssSize,            \* size_of::<TaskStateSegment>()
    tableAddr,          \* address of the GDT singleton's table storage
    istStackAddr,       \* address of the static IST_STACK buffer
    TSS,                \* the lazy_static cell TSS
    GDT,                \* the lazy_static cell GDT
    gdt,                \* the table under construction (local of the GDT initializer)
    descriptor,         \* the argument of the latest push
    encoder,            \* the encoder that produced that argument
    cpu,                \* gdtr, cs, es, ss, ds, fs, gs, tr
    initCalls,          \* number of calls of init so far
    tssInits,           \* number of runs of the TSS initializer so far
    gdtInits            \* number of runs of the GDT initializer so far

vars == <<pc, revisionSupported, interruptsEnabled, tssAddr, tssSize, tableAddr,
          istStackAddr, TSS, GDT, gdt, descriptor, encoder, cpu, initCalls,
          tssInits, gdtInits>>

\* Bound on the number of calls of init a caller makes.
MaxInitCalls == 2

----------------------------------------------------------------------------
(* 64-bit words as bit sets *)

U64Bits == 0..63

\* The bits of a natural below 2^16.
Bits16(n) == {i \in 0..15 : (n \div 2^i) % 2 = 1}

\* The bits of a natural below 2^31.
BitsOf(n) == {i \in 0..30 : (n \div 2^i) % 2 = 1}

\* The u64 with 16-bit limbs l3:l2:l1:l0 (l3 the most significant).
U64(l3, l2, l1, l0) ==
    Bits16(l0) \cup {b + 16 : b \in Bits16(l1)}
               \cup {b + 32 : b \in Bits16(l2)}
               \cup {b + 48 : b \in Bits16(l3)}

\* n << k, as the flags are written in the source.
Shl(n, k) == {b + k : b \in BitsOf(n)} \cap U64Bits

\* BitField::get_bits(lo..hi)
get_bits(w, lo, hi) == {b - lo : b \in {x \in w : lo <= x /\ x < hi}}

\* BitField::set_bits asserts that the value fits into the range.
set_bits_fits(lo, hi, value) == value \subseteq 0..(hi - lo - 1)

\* BitField::set_bits(lo..hi, value)
set_bits(w, lo, hi, value) == (w \ (lo..(hi - 1))) \cup {b + lo : b \in value}

\* Wrapping 64-bit addition (ripple carry from bit i upwards).
RECURSIVE AddFrom(_, _, _, _)
AddFrom(a, b, i, carry) ==
    IF i > 63 THEN {}
    ELSE LET n == (IF i \in a THEN 1 ELSE 0) + (IF i \in b THEN 1 ELSE 0) + carry
         IN  (IF n % 2 = 1 THEN {i} ELSE {}) \cup AddFrom(a, b, i + 1, n \div 2)

wrapping_add(a, b) == AddFrom(a, b, 0, 0)

----------------------------------------------------------------------------
(* DescriptorFlags *)

ACCESSED     == Shl(1, 40)
WRITABLE     == Shl(1, 41)
CONFORMING   == Shl(1, 42)
EXECUTABLE   == Shl(1, 43)
USER_SEGMENT == Shl(1, 44)
DPL_RING_3   == Shl(3, 45)
PRESENT      == Shl(1, 47)
AVAILABLE    == Shl(1, 52)
LONG_MODE    == Shl(1, 53)
DEFAULT_SIZE == Shl(1, 54)
GRANULARITY  == Shl(1, 55)
LIMIT_0_15   == BitsOf(65535)
LIMIT_16_19  == Shl(15, 48)
BASE_0_23    == Shl(16777215, 16)
BASE_24_31   == Shl(255, 56)

\* The union of all flags bitflags! declares.
AllFlags ==
    ACCESSED \cup WRITABLE \cup CONFORMING \cup EXECUTABLE \cup USER_SEGMENT
    \cup DPL_RING_3 \cup PRESENT \cup AVAILABLE \cup LONG_MODE \cup DEFAULT_SIZE
    \cup GRANULARITY \cup LIMIT_0_15 \cup LIMIT_16_19 \cup BASE_0_23 \cup BASE_24_31

\* from_bits_truncate drops the bits that belong to no declared flag.
from_bits_truncate(bits) == bits \cap AllFlags

COMMON ==
    from_bits_truncate(
        USER_SEGMENT \cup PRESENT \cup WRITABLE \cup ACCESSED \cup LIMIT_0_15
        \cup LIMIT_16_19 \cup BASE_0_23 \cup BASE_24_31 \cup GRANULARITY)

\* Faulty variant of KERNEL_CODE: a 32-bit code segment (DEFAULT_SIZE next to LONG_MODE).
KERNEL_CODE_DefaultSize ==
    from_bits_truncate(COMMON \cup LONG_MODE \cup EXECUTABLE \cup DEFAULT_SIZE)

KERNEL_CODE == from_bits_truncate(COMMON \cup LONG_MODE \cup EXECUTABLE)

KERNEL_DATA == from_bits_truncate(COMMON \cup DEFAULT_SIZE)

USER_CODE == from_bits_truncate(KERNEL_CODE \cup DPL_RING_3)

USER_DATA == from_bits_truncate(KERNEL_DATA \cup DPL_RING_3)

----------------------------------------------------------------------------
(* Descriptor and its encoders *)

UserSegment(value) == [kind |-> "UserSegment", value |-> value]

SystemSegment(value_low, value_high) ==
    [kind |-> "SystemSegment", value_low |-> value_low, value_high |-> value_high]

\* No descriptor has been passed to push yet.
NoDescriptor == [kind |-> "None"]

kernel_code_segment == UserSegment(KERNEL_CODE)

kernel_data_segment == UserSegment(KERNEL_DATA)

user_code_segment == UserSegment(USER_CODE)

user_data_segment == UserSegment(USER_DATA)

\* The low quadword task_state_segment builds for a TSS at ptr of the given size.
tss_low(ptr, size) ==
    LET l0 == PRESENT
        l1 == set_bits(l0, 16, 40, get_bits(ptr, 0, 24))
        l2 == set_bits(l1, 56, 64, get_bits(ptr, 24, 32))
        l3 == set_bits(l2, 0, 16, BitsOf(size - 1))
    IN  set_bits(l3, 40, 44, BitsOf(9))

\* The high quadword task_state_segment builds.
tss_high(ptr) == set_bits({}, 0, 32, get_bits(ptr, 32, 64))

\* Whether a set_bits assertion of task_state_segment fails (it then panics).
task_state_segment_panics(ptr, size) == ~set_bits_fits(0, 16, BitsOf(size - 1))

\* Faulty variant of task_state_segment: base bits 24..32 written next to the limit
\* nibble (bits 48..56) instead of bits 56..64.
task_state_segment_BaseMisplaced(ptr, size) ==
    SystemSegment(
        set_bits(set_bits(set_bits(set_bits(PRESENT, 16, 40, get_bits(ptr, 0, 24)),
                                   48, 56, get_bits(ptr, 24, 32)),
                          0, 16, BitsOf(size - 1)),
                 40, 44, BitsOf(9)),
        tss_high(ptr))

task_state_segment(ptr, size) == SystemSegment(tss_low(ptr, size), tss_high(ptr))

----------------------------------------------------------------------------
(* GlobalDescriptorTable<MAX = 8> *)

MAX == 8

\* size_of::<Entry>(): Entry is a transparent u64.
EntrySize == 8

Zero == {}

\* Faulty variant of empty: no reserved null descriptor (len starts at 0).
empty_NoNull == [table |-> [i \in 0..(MAX - 1) |-> Zero], len |-> 0]

empty == [table |-> [i \in 0..(MAX - 1) |-> Zero], len |-> 1]

\* Faulty variant of push: a system segment's high quadword overwrites the low one
\* (the first length increment is missing).
push_SystemOverwrites(self, d) ==
    IF d.kind = "UserSegment"
    THEN IF self.len >= MAX
         THEN [self |-> self, panic |-> TRUE]
         ELSE [self |-> [table |-> [self.table EXCEPT ![self.len] = d.value],
                         len |-> self.len + 1],
               panic |-> FALSE]
    ELSE IF self.len >= MAX
         THEN [self |-> self, panic |-> TRUE]
         ELSE [self |-> [table |-> [self.table EXCEPT ![self.len] = d.value_high],
                         len |-> self.len + 1],
               panic |-> FALSE]

\* Faulty variant of push: the index is not bounds-checked; a write past the end is
\* dropped and the length still advances.
push_Unchecked(self, d) ==
    LET put(t, i, v) == IF i < MAX THEN [t EXCEPT ![i] = v] ELSE t
    IN  IF d.kind = "UserSegment"
        THEN [self |-> [table |-> put(self.table, self.len, d.value),
                        len |-> self.len + 1],
              panic |-> FALSE]
        ELSE [self |-> [table |-> put(put(self.table, self.len, d.value_low),
                                      self.len + 1, d.value_high),
                        len |-> self.len + 2],
              panic |-> FALSE]

\* push: the table after the call and whether an index was out of bounds (the
\* indexing then panics; the writes done before it stay in `self`).
push(self, d) ==
    IF d.kind = "UserSegment"
    THEN IF self.len >= MAX
         THEN [self |-> self, panic |-> TRUE]
         ELSE [self |-> [table |-> [self.table EXCEPT ![self.len] = d.value],
                         len |-> self.len + 1],
               panic |-> FALSE]
    ELSE IF self.len >= MAX
         THEN [self |-> self, panic |-> TRUE]
         ELSE LET low == [table |-> [self.table EXCEPT ![self.len] = d.value_low],
                          len |-> self.len + 1]
              IN  IF low.len >= MAX
                  THEN [self |-> low, panic |-> TRUE]
                  ELSE [self |-> [table |-> [low.table EXCEPT ![low.len] = d.value_high],
                                  len |-> low.len + 1],
                        panic |-> FALSE]

\* Faulty variant of register: the size is the byte length, not the last byte's offset.
register_NoMinusOne(self, address) ==
    [address |-> address, size |-> (self.len * EntrySize) % 65536]

\* register: the table's storage address and (len * size_of::<Entry>() - 1) as u16.
register(self, address) ==
    [address |-> address, size |-> (self.len * EntrySize - 1) % 65536]

----------------------------------------------------------------------------
(* Static storage and build-time constants the model draws at Init *)

\* Candidate addresses of the TSS singleton's storage (canonical addresses).
TssAddrs ==
    { U64(65535, 65535, 32786, 13400),     \* 0xFFFF_FFFF_8012_3458
      U64(65535, 33059, 17767, 35240),     \* 0xFFFF_8123_4567_89A8
      U64(0, 31420, 57072, 4656),          \* 0x0000_7ABC_DEF0_1230
      U64(0, 0, 16, 8192) }                \* 0x0000_0000_0010_2000

\* Candidate values of size_of::<TaskStateSegment>().
TssSizes == {104, 112, 65536}

\* Candidate addresses of the IST_STACK buffer.
IstStackAddrs ==
    { U64(65535, 65535, 32800, 0),         \* 0xFFFF_FFFF_8020_0000
      U64(65535, 65535, 36863, 61440),     \* 0xFFFF_FFFF_8FFF_F000
      U64(0, 0, 65535, 49152) }            \* 0x0000_0000_FFFF_C000

\* Candidate addresses of the GDT singleton's table storage.
TableAddrs == { U64(65535, 65535, 32816, 64) }   \* 0xFFFF_FFFF_8030_0040

\* Segmentation state the limine bootloader hands to entry: its own table,
\* cs = 64-bit code (0x28), the data-style registers = 64-bit data (0x30),
\* no task register.
BootCpu ==
    [gdtr |-> [address |-> U64(0, 0, 7, 61440), size |-> 55],
     cs |-> 40, es |-> 48, ss |-> 48, ds |-> 48, fs |-> 48, gs |-> 48, tr |-> 0]

Uninit == [state |-> "uninit"]

Done(value) == [state |-> "done", value |-> value]

\* TaskStateSegment::new(): every interrupt-stack-table slot is zero.
TaskStateSegment_new == [interrupt_stack_table |-> [i \in 0..6 |-> Zero]]

IST_STACK_SIZE == 20 * 1024

\* The body of the TSS lazy_static: new(), then interrupt_stack_table[0] = the
\* address one past the end of IST_STACK.
TssInitializer(stack) ==
    [TaskStateSegment_new EXCEPT
        !.interrupt_stack_table[0] = wrapping_add(stack, BitsOf(IST_STACK_SIZE))]

\* What every specification's initial state shares.
InitCommon ==
    /\ TSS = Uninit
    /\ GDT = Uninit
    /\ gdt = empty
    /\ descriptor = NoDescriptor
    /\ encoder = "none"
    /\ cpu = BootCpu
    /\ initCalls = 0
    /\ tssInits = 0
    /\ gdtInits = 0
    /\ tableAddr \in TableAddrs

\* The machine as the bootloader enters the kernel.
Init ==
    /\ InitCommon
    /\ pc = "entry"
    /\ revisionSupported \in BOOLEAN
    /\ interruptsEnabled \in BOOLEAN
    /\ tssAddr \in TssAddrs
    /\ tssSize \in TssSizes
    /\ istStackAddr \in IstStackAddrs

statics == <<revisionSupported, tssAddr, tssSize, tableAddr, istStackAddr>>

----------------------------------------------------------------------------
(* main.rs: entry *)

\* Faulty variant of EntryCheck: the result of the revision check is ignored.
EntryCheck_Ignored ==
    /\ pc = "entry"
    /\ pc' = "disable"
    /\ UNCHANGED <<statics, interruptsEnabled, TSS, GDT, gdt, descriptor, encoder,
                   cpu, initCalls, tssInits, gdtInits>>

\* if !requests::BASE_REVISION.is_supported() { panic!(..) }
EntryCheck ==
    /\ pc = "entry"
    /\ pc' = IF revisionSupported THEN "disable" ELSE "panic"
    /\ UNCHANGED <<statics, interruptsEnabled, TSS, GDT, gdt, descriptor, encoder,
                   cpu, initCalls, tssInits, gdtInits>>

\* arch::interrupts::disable()
InterruptsDisable ==
    /\ pc = "disable"
    /\ interruptsEnabled' = FALSE
    /\ pc' = "arch_init"
    /\ UNCHANGED <<statics, TSS, GDT, gdt, descriptor, encoder, cpu, initCalls,
                   tssInits, gdtInits>>

\* arch::init() calls gdt::init().
ArchInit ==
    /\ pc = "arch_init"
    /\ initCalls' = initCalls + 1
    /\ pc' = "init"
    /\ UNCHANGED <<statics, interruptsEnabled, TSS, GDT, gdt, descriptor, encoder,
                   cpu, tssInits, gdtInits>>

\* arch::endless_loop(), entered when init has returned.
EndlessLoop ==
    /\ pc = "init_ret"
    /\ pc' = "endless_loop"
    /\ UNCHANGED <<statics, interruptsEnabled, TSS, GDT, gdt, descriptor, encoder,
                   cpu, initCalls, tssInits, gdtInits>>

----------------------------------------------------------------------------
(* gdt.rs: the GDT and TSS singletons (lazy_static) *)

\* Faulty variant of InitDerefGDT: no once-guard, every dereference runs the initializer.
InitDerefGDT_NoGuard ==
    /\ pc = "init"
    /\ gdtInits' = gdtInits + 1
    /\ pc' = "gdt_empty"
    /\ UNCHANGED <<statics, interruptsEnabled, TSS, GDT, gdt, descriptor, encoder,
                   cpu, initCalls, tssInits>>

\* init evaluates GDT.register(): the dereference of GDT runs the initializer
\* when the cell is not yet initialized and yields the stored table otherwise.
InitDerefGDT ==
    /\ pc = "init"
    /\ IF GDT.state = "done"
       THEN pc' = "lgdt" /\ UNCHANGED gdtInits
       ELSE pc' = "gdt_empty" /\ gdtInits' = gdtInits + 1
    /\ UNCHANGED <<statics, interruptsEnabled, TSS, GDT, gdt, descriptor, encoder,
                   cpu, initCalls, tssInits>>

\* let mut gdt = GlobalDescriptorTable::empty();
GdtEmpty ==
    /\ pc = "gdt_empty"
    /\ gdt' = empty
    /\ pc' = "gdt_push_kernel_code"
    /\ UNCHANGED <<statics, interruptsEnabled, TSS, GDT, descriptor, encoder, cpu,
                   initCalls, tssInits, gdtInits>>

\* gdt.push(d) with d produced by the encoder `name`, continuing at `next`;
\* an out-of-bounds index panics.
PushStep(name, d, next) ==
    /\ descriptor' = d
    /\ encoder' = name
    /\ gdt' = push(gdt, d).self
    /\ pc' = IF push(gdt, d).panic THEN "panic" ELSE next

\* gdt.push(Descriptor::kernel_code_segment());
GdtPushKernelCode ==
    /\ pc = "gdt_push_kernel_code"
    /\ PushStep("kernel_code_segment", kernel_code_segment, "gdt_push_kernel_data")
    /\ UNCHANGED <<statics, interruptsEnabled, TSS, GDT, cpu, initCalls, tssInits,
                   gdtInits>>

\* gdt.push(Descriptor::kernel_data_segment());
GdtPushKernelData ==
    /\ pc = "gdt_push_kernel_data"
    /\ PushStep("kernel_data_segment", kernel_data_segment, "gdt_push_user_code")
    /\ UNCHANGED <<statics, interruptsEnabled, TSS, GDT, cpu, initCalls, tssInits,
                   gdtInits>>

\* gdt.push(Descriptor::user_code_segment());
GdtPushUserCode ==
    /\ pc = "gdt_push_user_code"
    /\ PushStep("user_code_segment", user_code_segment, "gdt_push_user_data")
    /\ UNCHANGED <<statics, interruptsEnabled, TSS, GDT, cpu, initCalls, tssInits,
                   gdtInits>>

\* gdt.push(Descriptor::user_data_segment());
GdtPushUserData ==
    /\ pc = "gdt_push_user_data"
    /\ PushStep("user_data_segment", user_data_segment, "gdt_deref_tss")
    /\ UNCHANGED <<statics, interruptsEnabled, TSS, GDT, cpu, initCalls, tssInits,
                   gdtInits>>

\* Faulty variant of GdtDerefTSS: the reference is taken without running the initializer.
GdtDerefTSS_NoInit ==
    /\ pc = "gdt_deref_tss"
    /\ pc' = "gdt_push_tss"
    /\ UNCHANGED <<statics, interruptsEnabled, TSS, GDT, gdt, descriptor, encoder,
                   cpu, initCalls, tssInits, gdtInits>>

\* The argument &TSS of task_state_segment: the dereference of TSS runs the TSS
\* initializer when the cell is not yet initialized.
GdtDerefTSS ==
    /\ pc = "gdt_deref_tss"
    /\ IF TSS.state = "done"
       THEN UNCHANGED <<TSS, tssInits>>
       ELSE /\ TSS' = Done(TssInitializer(istStackAddr))
            /\ tssInits' = tssInits + 1
    /\ pc' = "gdt_push_tss"
    /\ UNCHANGED <<statics, interruptsEnabled, GDT, gdt, descriptor, encoder, cpu,
                   initCalls, gdtInits>>

\* gdt.push(Descriptor::task_state_segment(&TSS));
GdtPushTss ==
    /\ pc = "gdt_push_tss"
    /\ IF task_state_segment_panics(tssAddr, tssSize)
       THEN pc' = "panic" /\ UNCHANGED <<gdt, descriptor, encoder>>
       ELSE PushStep("task_state_segment", task_state_segment(tssAddr, tssSize),
                     "gdt_store")
    /\ UNCHANGED <<statics, interruptsEnabled, TSS, GDT, cpu, initCalls, tssInits,
                   gdtInits>>

\* The initializer's value `gdt` is stored in the cell; the dereference returns.
GdtStore ==
    /\ pc = "gdt_store"
    /\ GDT' = Done(gdt)
    /\ pc' = "lgdt"
    /\ UNCHANGED <<statics, interruptsEnabled, TSS, gdt, descriptor, encoder, cpu,
                   initCalls, tssInits, gdtInits>>

----------------------------------------------------------------------------
(* gdt.rs: init, the privileged load sequence *)

KernelCodeSelector == 8

KernelDataSelector == 16

TssSelector == 40

\* The table slot a selector names.
SlotOf(selector) == selector \div EntrySize

\* Loading a segment register makes the processor set the accessed bit of the
\* descriptor it reads from the table.
MarkAccessed(cell, selector) ==
    [cell EXCEPT !.value.table[SlotOf(selector)] = @ \cup ACCESSED]

\* asm!("lgdt [{}]", in(reg) &GDT.register())
Lgdt ==
    /\ pc = "lgdt"
    /\ cpu' = [cpu EXCEPT !.gdtr = register(GDT.value, tableAddr)]
    /\ pc' = "retfq"
    /\ UNCHANGED <<statics, interruptsEnabled, TSS, GDT, gdt, descriptor, encoder,
                   initCalls, tssInits, gdtInits>>

\* Faulty variant of Retfq: the far return carries the data selector.
Retfq_DataSelector ==
    /\ pc = "retfq"
    /\ cpu' = [cpu EXCEPT !.cs = KernelDataSelector]
    /\ GDT' = MarkAccessed(GDT, KernelDataSelector)
    /\ pc' = "reload_data"
    /\ UNCHANGED <<statics, interruptsEnabled, TSS, gdt, descriptor, encoder,
                   initCalls, tssInits, gdtInits>>

\* push 0x08; lea rax, [label]; push rax; retfq
Retfq ==
    /\ pc = "retfq"
    /\ cpu' = [cpu EXCEPT !.cs = KernelCodeSelector]
    /\ GDT' = MarkAccessed(GDT, KernelCodeSelector)
    /\ pc' = "reload_data"
    /\ UNCHANGED <<statics, interruptsEnabled, TSS, gdt, descriptor, encoder,
                   initCalls, tssInits, gdtInits>>

\* mov ax, 0x10; mov es, ax; mov ss, ax; mov ds, ax; mov fs, ax; mov gs, ax
ReloadDataSegments ==
    /\ pc = "reload_data"
    /\ cpu' = [cpu EXCEPT !.es = KernelDataSelector, !.ss = KernelDataSelector,
                          !.ds = KernelDataSelector, !.fs = KernelDataSelector,
                          !.gs = KernelDataSelector]
    /\ GDT' = MarkAccessed(GDT, KernelDataSelector)
    /\ pc' = "ltr"
    /\ UNCHANGED <<statics, interruptsEnabled, TSS, gdt, descriptor, encoder,
                   initCalls, tssInits, gdtInits>>

\* asm!("ltr {0:x}", in(reg) 0x28): the processor accepts only an available
\* 64-bit TSS descriptor (type 0b1001), marks it busy (type 0b1011) in the
\* table and loads the task register; any other type is a protection fault.
Ltr ==
    /\ pc = "ltr"
    /\ IF get_bits(GDT.value.table[SlotOf(TssSelector)], 40, 44) = BitsOf(9)
       THEN /\ cpu' = [cpu EXCEPT !.tr = TssSelector]
            /\ GDT' = [GDT EXCEPT !.value.table[SlotOf(TssSelector)] = @ \cup WRITABLE]
            /\ pc' = "init_ret"
       ELSE /\ pc' = "fault"
            /\ UNCHANGED <<cpu, GDT>>
    /\ UNCHANGED <<statics, interruptsEnabled, TSS, gdt, descriptor, encoder,
                   initCalls, tssInits, gdtInits>>

\* The steps of init and of the initializers it runs.
InitSteps ==
    \/ InitDerefGDT
    \/ GdtEmpty
    \/ GdtPushKernelCode
    \/ GdtPushKernelData
    \/ GdtPushUserCode
    \/ GdtPushUserData
    \/ GdtDerefTSS
    \/ GdtPushTss
    \/ GdtStore
    \/ Lgdt
    \/ Retfq
    \/ ReloadDataSegments
    \/ Ltr

Next ==
    \/ EntryCheck
    \/ InterruptsDisable
    \/ ArchInit
    \/ InitSteps
    \/ EndlessLoop

Spec == Init /\ [][Next]_vars

----------------------------------------------------------------------------
(* The table builder under arbitrary sequences of pushes *)

EncoderNames ==
    {"kernel_code_segment", "kernel_data_segment", "user_code_segment",
     "user_data_segment", "task_state_segment"}

\* The descriptor each encoder returns.
Encode(name) ==
    CASE name = "kernel_code_segment" -> kernel_code_segment
      [] name = "kernel_data_segment" -> kernel_data_segment
      [] name = "user_code_segment"   -> user_code_segment
      [] name = "user_data_segment"   -> user_data_segment
      [] name = "task_state_segment"  -> task_state_segment(tssAddr, tssSize)

\* A table right after empty(), in an initializer that may push anything.
InitBuilder ==
    /\ InitCommon
    /\ pc = "builder"
    /\ revisionSupported = TRUE
    /\ interruptsEnabled = FALSE
    /\ tssAddr = U64(65535, 65535, 32786, 13400)
    /\ tssSize = 104
    /\ istStackAddr = U64(65535, 65535, 32800, 0)

\* gdt.push(d) for the descriptor d of any encoder.
BuilderPush ==
    /\ pc = "builder"
    /\ \E name \in EncoderNames : PushStep(name, Encode(name), "builder")
    /\ UNCHANGED <<statics, interruptsEnabled, TSS, GDT, cpu, initCalls, tssInits,
                   gdtInits>>

\* The initializer ends and yields `gdt`.
BuilderFinish ==
    /\ pc = "builder"
    /\ pc' = "gdt_store"
    /\ UNCHANGED <<statics, interruptsEnabled, TSS, GDT, gdt, descriptor, encoder,
                   cpu, initCalls, tssInits, gdtInits>>

NextBuilder ==
    \/ BuilderPush
    \/ BuilderFinish
    \/ GdtStore
    \/ Lgdt

SpecBuilder == InitBuilder /\ [][NextBuilder]_vars

----------------------------------------------------------------------------
(* init under a caller that calls it more than once *)

InitCallers ==
    /\ InitCommon
    /\ pc = "caller"
    /\ revisionSupported = TRUE
    /\ interruptsEnabled = FALSE
    /\ tssAddr \in TssAddrs
    /\ tssSize \in TssSizes
    /\ istStackAddr \in IstStackAddrs

\* pub fn init() is called.
CallInit ==
    /\ pc = "caller"
    /\ initCalls < MaxInitCalls
    /\ initCalls' = initCalls + 1
    /\ pc' = "init"
    /\ UNCHANGED <<statics, interruptsEnabled, TSS, GDT, gdt, descriptor, encoder,
                   cpu, tssInits, gdtInits>>

\* init returns to its caller.
InitReturn ==
    /\ pc = "init_ret"
    /\ pc' = "caller"
    /\ UNCHANGED <<statics, interruptsEnabled, TSS, GDT, gdt, descriptor, encoder,
                   cpu, initCalls, tssInits, gdtInits>>

NextCallers ==
    \/ CallInit
    \/ InitSteps
    \/ InitReturn

SpecCallers == InitCallers /\ [][NextCallers]_vars

----------------------------------------------------------------------------
(* Decoding helpers used by the properties *)

\* The natural a bit set below 2^31 stands for.
RECURSIVE Val(_)
Val(w) == IF w = {} THEN 0
          ELSE LET b == CHOOSE x \in w : TRUE IN 2^b + Val(w \ {b})

\* The i-th 16-bit limb of a u64, as a natural.
Limb(w, i) == Val(get_bits(w, 16 * i, 16 * i + 16))

\* The descriptor privilege level (bits 45..46) of an encoded descriptor.
Dpl(w) == Val(get_bits(w, 45, 47))

\* The 64-bit base address a two-quadword system descriptor encodes.
DecodedBase(low, high) ==
    get_bits(low, 16, 40) \cup {b + 24 : b \in get_bits(low, 56, 64)}
                          \cup {b + 32 : b \in get_bits(high, 0, 32)}

\* The byte offsets (slot index * 8) of the occupied slots of t that hold v.
OffsetsOf(t, v) == {i * 8 : i \in {j \in 0..(t.len - 1) : t.table[j] = v}}

\* The register contents lgdt loads for the reference table.
ReferenceGdtr == [address |-> tableAddr, size |-> 55]

\* How far the load sequence has come, read off the CPU registers alone:
\* 0 nothing loaded, 1 table register, 2 code segment, 3 data-style segments,
\* 4 task register; -1 for any other combination.
Progress ==
    LET s1 == [BootCpu EXCEPT !.gdtr = ReferenceGdtr]
        s2 == [s1 EXCEPT !.cs = 8]
        s3 == [s2 EXCEPT !.es = 16, !.ss = 16, !.ds = 16, !.fs = 16, !.gs = 16]
        s4 == [s3 EXCEPT !.tr = 40]
    IN  CASE cpu = BootCpu -> 0
          [] cpu = s1 -> 1
          [] cpu = s2 -> 2
          [] cpu = s3 -> 3
          [] cpu = s4 -> 4
          [] OTHER -> -1

\* The progress each program position of the boot path must show.
ExpectedProgress ==
    CASE pc = "retfq" -> 1
      [] pc = "reload_data" -> 2
      [] pc = "ltr" -> 3
      [] pc \in {"init_ret", "endless_loop"} -> 4
      [] OTHER -> 0

\* The five descriptors are in the stored table: 7 occupied slots, a present
\* descriptor in each of the slots 1..5 (slot 6 is the TSS's high quadword).
TableBuilt ==
    /\ GDT.state = "done"
    /\ GDT.value.len = 7
    /\ \A i \in 1..5 : PRESENT \subseteq GDT.value.table[i]

----------------------------------------------------------------------------
(* C1 *)

\* C1: init performs the activation steps in exactly this order, each once and
\* none skipped: the table is fully built, then lgdt loads GDT.register(), then
\* the far return reloads cs with 0x08, then es, ss, ds, fs, gs are loaded with
\* 0x10, then ltr loads 0x28; the state after ltr is terminal for the CPU
\* registers and no step is repeated.
C1_LoadSequenceInOrder ==
    /\ [](/\ Progress = ExpectedProgress
          /\ (pc = "lgdt" \/ Progress >= 1) => TableBuilt)
    /\ [][/\ Progress' \in {Progress, Progress + 1}
          /\ (Progress' = Progress + 1) =>
                pc = CASE Progress = 0 -> "lgdt"
                       [] Progress = 1 -> "retfq"
                       [] Progress = 2 -> "reload_data"
                       [] OTHER -> "ltr"
          /\ (Progress = 4) => (cpu' = cpu)
          /\ pc' # pc]_vars

\* C1 witness: the whole sequence has run and the core is in the endless loop.
C1_Witness ==
    /\ pc = "endless_loop"
    /\ cpu.gdtr = ReferenceGdtr
    /\ cpu.cs = 8 /\ cpu.ss = 16 /\ cpu.tr = 40

----------------------------------------------------------------------------
(* C2 *)

\* The initializer of GDT has built its table (`gdt` is its result).
GdtBuilt == pc = "gdt_store" \/ GDT.state = "done"

\* C2: in the table the GDT initializer builds, the byte offset (slot index * 8)
\* of each descriptor is 0x08 kernel code, 0x10 kernel data, 0x18 user code,
\* 0x20 user data, 0x28 the low quadword of the TSS descriptor (the high
\* quadword follows at 0x30 and slot 0 is the null descriptor).
C2_SelectorOffsets ==
    GdtBuilt =>
        /\ OffsetsOf(gdt, KERNEL_CODE) = {8}
        /\ OffsetsOf(gdt, KERNEL_DATA) = {16}
        /\ OffsetsOf(gdt, USER_CODE) = {24}
        /\ OffsetsOf(gdt, USER_DATA) = {32}
        /\ 40 \in OffsetsOf(gdt, tss_low(tssAddr, tssSize))
        /\ gdt.table[6] = tss_high(tssAddr)
        /\ gdt.table[0] = Zero
        /\ gdt.len * 8 = 56
        /\ GDT.state = "done" =>
              \A i \in 0..(MAX - 1) :
                  GDT.value.table[i] \ WRITABLE = gdt.table[i] \ WRITABLE

\* C2 witness: the stored table is in use with cs = 0x08 naming the kernel code
\* descriptor and tr = 0x28 naming the TSS descriptor.
C2_Witness ==
    /\ GDT.state = "done"
    /\ cpu.cs = 8 /\ cpu.tr = 40
    /\ GDT.value.table[cpu.cs \div 8] = KERNEL_CODE
    /\ get_bits(GDT.value.table[cpu.tr \div 8], 16, 40) = get_bits(tssAddr, 0, 24)

----------------------------------------------------------------------------
(* C3 *)

\* The number of slots a descriptor occupies.
Slots(d) == IF d.kind = "SystemSegment" THEN 2 ELSE 1

\* C3: a push with room writes UserSegment(v) as v at index n, length n+1, and
\* SystemSegment(lo, hi) as lo at n and hi at n+1, length n+2; every slot below
\* n is unchanged, so slot 0 stays the null descriptor; and a push with room
\* does not panic.
C3_PushAppends ==
    /\ [](gdt.table[0] = Zero /\ gdt.len >= 1)
    /\ [][(pc = "builder" /\ pc' \in {"builder", "panic"}) =>
            LET n == gdt.len
                d == descriptor'
            IN  /\ (n + Slots(d) <= MAX) => (pc' = "builder")
                /\ (pc' = "builder" /\ d.kind = "UserSegment") =>
                      /\ gdt'.len = n + 1
                      /\ gdt'.table[n] = d.value
                /\ (pc' = "builder" /\ d.kind = "SystemSegment") =>
                      /\ gdt'.len = n + 2
                      /\ gdt'.table[n] = d.value_low
                      /\ gdt'.table[n + 1] = d.value_high
                /\ \A i \in 0..(n - 1) : gdt'.table[i] = gdt.table[i]
                /\ \A i \in (n + Slots(d))..(MAX - 1) : gdt'.table[i] = gdt.table[i]]_vars

\* C3 witness: a system segment was pushed onto a table of length 3 that held
\* two user segments.
C3_Witness ==
    /\ pc = "builder"
    /\ descriptor.kind = "SystemSegment"
    /\ gdt.len = 5
    /\ gdt.table[1] = KERNEL_DATA /\ gdt.table[2] = USER_CODE
    /\ gdt.table[3] = descriptor.value_low /\ gdt.table[4] = descriptor.value_high

----------------------------------------------------------------------------
(* C4 *)

\* C4: a push whose resulting length would exceed MAX panics: the length never
\* exceeds MAX, and after the panic the table is never stored in the GDT cell,
\* never passed to register() and never loaded.
C4_OverflowAborts ==
    /\ [](/\ gdt.len <= MAX
          /\ (pc = "panic") => (GDT.state = "uninit" /\ cpu = BootCpu)
          /\ (GDT.state = "done") => (GDT.value.len <= MAX))
    /\ [][/\ (pc = "builder" /\ pc' # "gdt_store"
                /\ gdt.len + Slots(descriptor') > MAX) => (pc' = "panic")
          /\ (pc = "panic") => (pc' = "panic")]_vars

\* C4 witness: construction was aborted by a system segment pushed with one free
\* slot left.
C4_Witness ==
    /\ pc = "panic"
    /\ descriptor.kind = "SystemSegment"
    /\ gdt.len = MAX
    /\ GDT.state = "uninit"

----------------------------------------------------------------------------
(* C5 *)

\* C5: for every table built from empty() by pushes, with k occupied entries
\* (1 <= k <= 8), register() returns size k*8 - 1, not truncated, and the
\* address of the table's storage, and leaves the table as built; k = 7 gives 55.
C5_RegisterSizeAndAddress ==
    (pc = "retfq") =>
        LET k == GDT.value.len
        IN  /\ k \in 1..8
            /\ cpu.gdtr.size + 1 = k * 8
            /\ cpu.gdtr.size \in {7, 15, 23, 31, 39, 47, 55, 63}
            /\ cpu.gdtr.address = tableAddr
            /\ GDT.value = gdt
            /\ (k = 7) => (cpu.gdtr.size = 55)

\* C5 witness: register() was applied to the reference table.
C5_Witness ==
    /\ pc = "retfq"
    /\ GDT.value.len = 7
    /\ GDT.value.table[1] = KERNEL_CODE /\ GDT.value.table[2] = KERNEL_DATA
    /\ GDT.value.table[3] = USER_CODE /\ GDT.value.table[4] = USER_DATA
    /\ GDT.value.table[5] = tss_low(tssAddr, tssSize)
    /\ cpu.gdtr = [address |-> tableAddr, size |-> 55]

----------------------------------------------------------------------------
(* C6 *)

\* C6: for the TSS address A and size S (S - 1 fitting in 16 bits),
\* task_state_segment returns SystemSegment(low, high) whose base fields
\* reconstruct exactly A, whose limit field is S - 1, whose type nibble is
\* 0b1001, whose present bit is set, and whose other bits of low and bits
\* 32..63 of high are zero.
C6_TssDescriptorEncoding ==
    (encoder = "task_state_segment") =>
        /\ descriptor.kind = "SystemSegment"
        /\ LET low == descriptor.value_low
               high == descriptor.value_high
           IN  /\ DecodedBase(low, high) = tssAddr
               /\ Val(get_bits(low, 0, 16)) = tssSize - 1
               /\ Val(get_bits(low, 40, 44)) = 9
               /\ 47 \in low
               /\ low \cap ({44, 45, 46} \cup (48..55)) = {}
               /\ high \subseteq 0..31

\* C6 witness: a higher-half address and the largest size were encoded.
C6_Witness ==
    /\ encoder = "task_state_segment"
    /\ tssAddr = U64(65535, 33059, 17767, 35240)
    /\ tssSize = 65536
    /\ get_bits(descriptor.value_low, 56, 64) = BitsOf(69)
    /\ get_bits(descriptor.value_high, 0, 32) = get_bits(tssAddr, 32, 64)

----------------------------------------------------------------------------
(* C7 *)

\* The decoded attributes of an encoded user-segment descriptor.
Attributes(w) ==
    [dpl |-> Dpl(w), executable |-> 43 \in w, long_mode |-> 53 \in w,
     present |-> 47 \in w, user_segment |-> 44 \in w, default_size |-> 54 \in w]

\* The symmetric difference of two words: the bits in which they differ.
Differ(a, b) == (a \ b) \cup (b \ a)

\* C7: the decoded presets match their kind: kernel code is DPL 0, executable,
\* long-mode, present, user-segment; user code the same with DPL 3; kernel and
\* user data are present, user-segment, not executable, not long-mode, DPL 0
\* and 3; each user variant differs from its kernel counterpart (pushed two
\* slots earlier) in exactly bits 45 and 46; no code preset has default-size
\* together with long-mode.
C7_PresetAttributes ==
    LET a == Attributes(descriptor.value)
        code == a.executable /\ a.long_mode /\ a.present /\ a.user_segment
                /\ ~a.default_size
        data == ~a.executable /\ ~a.long_mode /\ a.present /\ a.user_segment
    IN  /\ (encoder = "kernel_code_segment") =>
              (descriptor.kind = "UserSegment" /\ code /\ a.dpl = 0)
        /\ (encoder = "user_code_segment") =>
              /\ descriptor.kind = "UserSegment" /\ code /\ a.dpl = 3
              /\ Differ(descriptor.value, gdt.table[1]) = {45, 46}
        /\ (encoder = "kernel_data_segment") =>
              (descriptor.kind = "UserSegment" /\ data /\ a.dpl = 0)
        /\ (encoder = "user_data_segment") =>
              /\ descriptor.kind = "UserSegment" /\ data /\ a.dpl = 3
              /\ Differ(descriptor.value, gdt.table[2]) = {45, 46}

\* C7 witness: user_data_segment() was encoded after the other three presets.
C7_Witness ==
    /\ encoder = "user_data_segment"
    /\ Dpl(descriptor.value) = 3
    /\ Dpl(gdt.table[1]) = 0 /\ 43 \in gdt.table[1]
    /\ Dpl(gdt.table[3]) = 3 /\ 43 \in gdt.table[3]

----------------------------------------------------------------------------
(* C8 *)

\* C8: each singleton's initializer runs at most once; a later request
\* (a repeated call of init) gets the stored instance at the same address with
\* the same contents; and once constructed, the TSS is never written and the
\* table is never written by the code (the one later change is the busy bit
\* the processor sets in the TSS descriptor when ltr executes).
C8_SingletonsBuiltOnce ==
    /\ [](/\ gdtInits <= 1 /\ tssInits <= 1
          /\ (GDT.state = "done") => (gdtInits = 1 /\ TSS.state = "done")
          /\ (TSS.state = "done") => (tssInits = 1)
          /\ (initCalls >= 2 /\ pc = "lgdt") =>
                (cpu.gdtr = register(GDT.value, tableAddr) /\ cpu.gdtr.address = tableAddr))
    /\ [][/\ (TSS.state = "done") => (TSS' = TSS)
          /\ (GDT.state = "done") =>
                \/ GDT' = GDT
                \/ /\ pc = "ltr"
                   /\ GDT' = [GDT EXCEPT !.value.table[5] = @ \cup {41}]
          /\ (initCalls >= 1 /\ pc = "init" /\ GDT.state = "done") => (pc' = "lgdt")
          /\ UNCHANGED <<tssAddr, tableAddr>>]_vars

\* C8 witness: a second call of init has got the stored table again.
C8_Witness ==
    /\ initCalls = 2
    /\ pc = "retfq"
    /\ gdtInits = 1 /\ tssInits = 1
    /\ cpu.gdtr.address = tableAddr

----------------------------------------------------------------------------
(* C9 *)

\* The positions of init's load sequence and of the initializers it runs.
InitPositions ==
    {"init", "gdt_empty", "gdt_push_kernel_code", "gdt_push_kernel_data",
     "gdt_push_user_code", "gdt_push_user_data", "gdt_deref_tss", "gdt_push_tss",
     "gdt_store", "lgdt", "retfq", "reload_data", "ltr", "init_ret"}

\* C9: in entry, initialization starts only after the revision check succeeded
\* and interrupts were disabled, and interrupts stay disabled up to the
\* terminal state; if the check fails entry panics and neither the interrupt
\* disable nor the initialization is executed.
C9_InitAfterCheckAndDisable ==
    /\ [](/\ (pc \in InitPositions \/ Progress # 0 \/ initCalls > 0) =>
                (revisionSupported /\ ~interruptsEnabled)
          /\ (pc = "arch_init") => (revisionSupported /\ ~interruptsEnabled)
          /\ (~revisionSupported) =>
                /\ pc \in {"entry", "panic"}
                /\ cpu = BootCpu /\ GDT.state = "uninit" /\ TSS.state = "uninit"
                /\ initCalls = 0)
    /\ [][/\ (~revisionSupported) => (pc' = "panic" /\ interruptsEnabled' = interruptsEnabled)
          /\ (pc = "entry" /\ revisionSupported) => (pc' = "disable")
          /\ (pc = "disable") => (pc' = "arch_init" /\ ~interruptsEnabled')]_vars

\* C9 witness: the task register is about to be loaded, interrupts disabled
\* since before the sequence began.
C9_Witness ==
    /\ pc = "ltr"
    /\ revisionSupported /\ ~interruptsEnabled
    /\ cpu.cs = 8 /\ cpu.ds = 16

----------------------------------------------------------------------------
(* C10 *)

\* The positions of the GDT initializer after its first push.
AfterFirstPush ==
    {"gdt_push_kernel_data", "gdt_push_user_code", "gdt_push_user_data",
     "gdt_deref_tss", "gdt_push_tss", "gdt_store"}

\* top = base + 20 * 1024, added limb by limb.
IsStackTop(base, top) ==
    LET s0 == Limb(base, 0) + 20480
        s1 == Limb(base, 1) + s0 \div 65536
        s2 == Limb(base, 2) + s1 \div 65536
        s3 == Limb(base, 3) + s2 \div 65536
    IN  /\ Limb(top, 0) = s0 % 65536
        /\ Limb(top, 1) = s1 % 65536
        /\ Limb(top, 2) = s2 % 65536
        /\ Limb(top, 3) = s3 % 65536

\* The TSS singleton is constructed, slot 0 holding the top of IST_STACK.
TssConstructed ==
    /\ TSS.state = "done"
    /\ IsStackTop(istStackAddr, TSS.value.interrupt_stack_table[0])

\* The TSS descriptor in the stored table encodes the singleton's address.
TssDescriptorNamesSingleton ==
    /\ GDT.state = "done"
    /\ DecodedBase(GDT.value.table[5], GDT.value.table[6]) = tssAddr

====
